---- MODULE Spec2Model ----
(***************************************************************************)
(* A model of the lowering engine of roblox-ts 0.0.24: class lowering      *)
(* (transpileClass), the call-site macro resolver (transpileCallExpression *)
(* and transpilePropertyCallExpression) and the source-file wrapper        *)
(* (transpileSourceFile), together with the Lua meaning of the class text  *)
(* that transpileClass emits.                                              *)
(*                                                                         *)
(* Emitted text is a sequence of fragments: one fragment per piece of a    *)
(* template literal of the source.  state.indent is kept as its depth (the *)
(* number of tabs); Ind(n) is the text of depth n.                         *)
(*                                                                         *)
(* Collaborators whose code is outside the modelled files                  *)
(* (transpileExpression, transpileArguments, transpileMethodDeclaration,   *)
(* transpileConstructorDeclaration, transpileAccessorDeclaration,          *)
(* validateApiAccess, checkReserved, checkMethodReserved) are taken to     *)
(* return: their text is an opaque fragment and they raise no diagnostic.  *)
(* Classes declare static methods, instance methods and get and set        *)
(* accessors; every method has a body.  A receiver type carries the        *)
(* attributes of a real type: an array type is no string and has the       *)
(* symbol Array, a string type has no symbol.                              *)
(*                                                                         *)
(* `last` records the node lowered last with what the lowering returned and *)
(* did: the diagnostic, the text, state.indent and state.usesTSLibrary on  *)
(* entry, and the names given to state.pushExport and state.hoistStack.    *)
(***************************************************************************)
EXTENDS Integers, Sequences, FiniteSets, TLC

VARIABLES
    pc,                 \* "ready" | "lowered" | "done" | "failed"
    indent,             \* depth of state.indent
    usesTSLibrary,      \* state.usesTSLibrary
    isModule,           \* state.isModule
    exportAssignments,  \* the file's ExportAssignment descendants: isExportEquals of each
    last,               \* the lowering that ran last: its node and what it returned
    out,                \* the text transpileSourceFile returned
    trace               \* what the last run of emitted Lua code did

vars == <<pc, indent, usesTSLibrary, isModule, exportAssignments, last, out, trace>>

\* ---------------------------------------------------------------- bounds

MaxAncestors == 2
MaxExports == 2

\* ---------------------------------------------------------------- text

RECURSIVE Ind(_)
Ind(n) == IF n <= 0 THEN "" ELSE "\t" \o Ind(n - 1)

pushIndent(i) == i + 1
popIndent(i) == i - 1

RECURSIVE Count(_, _)
Count(s, x) == IF s = <<>> THEN 0 ELSE (IF Head(s) = x THEN 1 ELSE 0) + Count(Tail(s), x)

None == "None"

\* ---------------------------------------------------------------- call.ts

STRING_MACRO_METHODS ==
    {"byte", "find", "format", "gmatch", "gsub", "len", "lower", "match", "rep", "reverse", "sub", "upper"}

RBX_MATH_CLASSES == {"CFrame", "UDim", "UDim2", "Vector2", "Vector2int16", "Vector3", "Vector3int16"}

\* The static type of a receiver, as the resolver reads it: isArrayType(type),
\* type.isString() || type.isStringLiteral(), and the escaped name of its symbol.
ArrayType == [isArray |-> TRUE, isString |-> FALSE, sym |-> "Array"]
StringType == [isArray |-> FALSE, isString |-> TRUE, sym |-> None]
NamedType(s) == [isArray |-> FALSE, isString |-> FALSE, sym |-> s]

MapNames == {"Map", "ReadonlyMap", "WeakMap"}
SetNames == {"Set", "ReadonlySet", "WeakSet"}
UserClass == "Base"

SymNames == {"Promise", "SymbolConstructor", "ObjectConstructor", UserClass, None}
                \cup MapNames \cup SetNames \cup RBX_MATH_CLASSES

ReceiverTypes == {ArrayType, StringType} \cup {NamedType(s) : s \in SymNames}

Properties == {"then", "for", "add", "sub", "mul", "div", "len", "get"}
ArgTexts == {"", "y"}
AccessPath == "x"

\* Call expression nodes.  callee is the kind of node.getExpression().
PropertyCalls ==
    [callee : {"property"}, recv : ReceiverTypes, recvIsSuper : {FALSE}, property : Properties,
     isMethod : BOOLEAN, args : ArgTexts, returnsTuple : BOOLEAN, parentIsStatement : BOOLEAN]

SuperPropertyCalls ==
    [callee : {"property"}, recv : {NamedType(UserClass)}, recvIsSuper : {TRUE}, property : Properties,
     isMethod : BOOLEAN, args : ArgTexts, returnsTuple : BOOLEAN, parentIsStatement : BOOLEAN]

OtherCalls ==
    [callee : {"super", "other"}, recv : {NamedType(UserClass)}, recvIsSuper : {FALSE}, property : {None},
     isMethod : {FALSE}, args : ArgTexts, returnsTuple : BOOLEAN, parentIsStatement : BOOLEAN]

\* The call expressions lowered.  The declared return type of a constructor,
\* of the math operators, of Promise.then and of Symbol.for is no tuple type.
CallNodes ==
    LET NeverReturnsTuple(node) ==
            \/ node.callee = "super"
            \/ /\ node.callee = "property"
               /\ \/ node.recv.sym \in RBX_MATH_CLASSES /\ node.property \in {"add", "sub", "mul", "div"}
                  \/ node.recv.sym = "Promise" /\ node.property = "then"
                  \/ node.recv.sym = "SymbolConstructor" /\ node.property = "for"
    IN  {node \in PropertyCalls \cup SuperPropertyCalls \cup OtherCalls :
            node.returnsTuple => ~NeverReturnsTuple(node)}

Ok(text, tsl) == [err |-> None, text |-> text, tsl |-> tsl]
Throw(kind) == [err |-> kind, text |-> <<>>, tsl |-> FALSE]

\* paramStr = accessPath, then ", " + params when params is not empty
ParamStr(accessPath, params) == IF params # "" THEN accessPath \o ", " \o params ELSE accessPath

\* The aggregate put around the call twice.
WrapTupleTwice(result) == <<"{ ", "{ ">> \o result \o <<" }", " }">>

\* `{ ${result} }`
WrapTuple(result) == <<"{ ">> \o result \o <<" }">>

\* The operators of add and sub exchanged.
MathOperatorSwapped(property) ==
    CASE property = "add" -> " - ("
      [] property = "sub" -> " + ("
      [] property = "mul" -> " * ("
      [] property = "div" -> " / ("

MathOperator(property) ==
    CASE property = "add" -> " + ("
      [] property = "sub" -> " - ("
      [] property = "mul" -> " * ("
      [] property = "div" -> " / ("

\* validateMathCall, then the infix expression
MathMacro(node, accessPath, params) ==
    IF node.parentIsStatement
    THEN Throw("NoMacroMathExpressionStatement")
    ELSE Ok(<<"(", accessPath, MathOperator(node.property), params, "))">>, FALSE)

\* The access path of a super receiver: the name of the class super resolves to.
SuperClassName(node) == node.recv.sym

DefaultMemberCall(node, accessPath0, params0, doNotWrapTupleReturn) ==
    LET super == node.isMethod /\ node.recvIsSuper
        sep == IF node.isMethod /\ ~node.recvIsSuper THEN ":" ELSE "."
        accessPath == IF super THEN SuperClassName(node) \o ".__index" ELSE accessPath0
        params == IF super THEN "self" \o (IF params0 # "" THEN ", " ELSE "") \o params0 ELSE params0
        result == <<accessPath, sep, node.property, "(", params, ")">>
    IN  IF ~doNotWrapTupleReturn /\ node.returnsTuple
        THEN Ok(WrapTuple(result), FALSE)
        ELSE Ok(result, FALSE)

\* The runtime-library call without state.usesTSLibrary = true.
RuntimeLibraryCallNoFlag(family, property, paramStr) ==
    Ok(<<"TS." \o family \o "_", property, "(", paramStr, ")">>, FALSE)

\* `TS.<family>_${property}(${paramStr})`, with state.usesTSLibrary = true
RuntimeLibraryCall(family, property, paramStr) ==
    Ok(<<"TS." \o family \o "_", property, "(", paramStr, ")">>, TRUE)

\* Every member of a Promise taken for `then`.
IsPromiseAnyMember(name, property) == name = "Promise"

\* subExpTypeName === "Promise", property === "then"
IsPromiseThen(name, property) == name = "Promise" /\ property = "then"

\* subExpTypeName === "SymbolConstructor", property === "for"
IsSymbolFor(name, property) == name = "SymbolConstructor" /\ property = "for"

\* RBX_MATH_CLASSES.indexOf(subExpTypeName) !== -1 and a case of the switch
IsMathCall(name, property) == name \in RBX_MATH_CLASSES /\ property \in {"add", "sub", "mul", "div"}

NamedTypeMacro(node, accessPath, params, doNotWrapTupleReturn) ==
    LET name == node.recv.sym
        property == node.property
    IN  CASE IsPromiseThen(name, property) ->
                Ok(<<accessPath, ":andThen(", params, ")">>, FALSE)
          [] IsSymbolFor(name, property) ->
                Ok(<<accessPath, ".getFor(", params, ")">>, FALSE)
          [] name \in MapNames ->
                RuntimeLibraryCall("map", property, ParamStr(accessPath, params))
          [] name \in SetNames ->
                RuntimeLibraryCall("set", property, ParamStr(accessPath, params))
          [] name = "ObjectConstructor" ->
                RuntimeLibraryCall("Object", property, params)
          [] IsMathCall(name, property) ->
                MathMacro(node, accessPath, params)
          [] OTHER -> DefaultMemberCall(node, accessPath, params, doNotWrapTupleReturn)

transpilePropertyCallExpression(node, doNotWrapTupleReturn) ==
    LET accessPath == AccessPath
        property == node.property
        params == node.args
    IN  IF node.recv.isArray
        THEN RuntimeLibraryCall("array", property, ParamStr(accessPath, params))
        ELSE IF node.recv.isString
        THEN IF property \in STRING_MACRO_METHODS
             THEN Ok(<<"string.", property, "(", ParamStr(accessPath, params), ")">>, FALSE)
             ELSE RuntimeLibraryCall("string", property, ParamStr(accessPath, params))
        ELSE IF node.recv.sym # None
        THEN NamedTypeMacro(node, accessPath, params, doNotWrapTupleReturn)
        ELSE DefaultMemberCall(node, accessPath, params, doNotWrapTupleReturn)

transpileCallExpression(node, doNotWrapTupleReturn) ==
    IF node.callee = "property"
    THEN transpilePropertyCallExpression(node, doNotWrapTupleReturn)
    ELSE IF node.callee = "super"
    THEN LET params == "self" \o (IF node.args # "" THEN ", " \o node.args ELSE "")
         IN  Ok(<<SuperClassName(node), ".constructor(", params, ")">>, FALSE)
    ELSE LET result == <<"f", "(", node.args, ")">>
         IN  IF ~doNotWrapTupleReturn /\ node.returnsTuple
             THEN Ok(WrapTuple(result), FALSE)
             ELSE Ok(result, FALSE)

\* ---------------------------------------------------------------- class nodes

LUA_RESERVED_METAMETHODS ==
    <<"__index", "__newindex", "__add", "__sub", "__mul", "__div", "__mod", "__pow", "__unm",
      "__eq", "__lt", "__le", "__call", "__concat", "__tostring", "__len", "__metatable", "__mode">>

LUA_UNDEFINABLE_METAMETHODS == {"__index", "__newindex", "__mode"}

\* What one class declares: static methods, instance methods, get and set accessors.
Shape(st, me, ge, se) == [statics |-> st, methods |-> me, getters |-> ge, setters |-> se]

ClassShapes ==
    { Shape({}, {}, {}, {}),
      Shape({"s"}, {}, {}, {}),
      Shape({}, {}, {"x"}, {}),
      Shape({}, {}, {}, {"x"}),
      Shape({}, {"m"}, {"x"}, {"x"}),
      Shape({"s"}, {"m", "__add"}, {}, {}),
      Shape({}, {"__add", "__mode"}, {}, {}) }

\* A class with its ancestors: chain[1] is the class, chain[2] its base class, ...
RECURSIVE Chains(_)
Chains(n) ==
    IF n = 0 THEN {<<>>}
    ELSE LET shorter == Chains(n - 1)
         IN  shorter \cup {<<c>> \o ch : c \in ClassShapes, ch \in {x \in shorter : Len(x) = n - 1}}

ClassChains == Chains(MaxAncestors + 1) \ {<<>>}

ClassNames == <<"A", "B", "C", "D", "E", "F">>
NameOf(ch) == ClassNames[Len(ch)]

\* heritage: "none", or how a base type relates to Roact ("Component",
\* "PureComponent": it is one; "derived": it inherits from one).
ClassNodes ==
    { n \in [chain : ClassChains, isExpression : BOOLEAN, isAbstract : BOOLEAN,
             heritage : {"none", "Component", "PureComponent", "derived"}] :
        n.heritage # "none" => Len(n.chain) = 2 /\ n.chain[2] = Shape({"s"}, {"m", "__add"}, {}, {}) }

getBaseClass(ch) == Tail(ch)
getMethods(c) == c.statics \cup c.methods
getStaticMembers(c) == c.statics
getInstanceProperties(c) == c.getters \cup c.setters
getInstanceMembers(c) == c.methods \cup c.getters \cup c.setters

\* The lookup of a method that does not go to the base class.
getClassMethodOwn(ch, methodName) == ch # <<>> /\ methodName \in getMethods(ch[1])

RECURSIVE getClassMethod(_, _)
getClassMethod(ch, methodName) ==
    IF ch = <<>> THEN FALSE
    ELSE IF methodName \in getMethods(ch[1]) THEN TRUE
    ELSE getClassMethod(getBaseClass(ch), methodName)

\* The walk of the ancestors stopped after the direct base class.
hasStaticInheritanceDirect(ch) ==
    LET base == getBaseClass(ch)
    IN  base # <<>> /\ getStaticMembers(base[1]) # {}

RECURSIVE hasStaticInheritance(_)
hasStaticInheritance(ch) ==
    LET base == getBaseClass(ch)
    IN  base # <<>> /\ (getStaticMembers(base[1]) # {} \/ hasStaticInheritance(base))

\* The walk of the ancestors stopped after the direct base class.
hasInstanceInheritanceDirect(ch) ==
    LET base == getBaseClass(ch)
    IN  base # <<>> /\ getInstanceMembers(base[1]) # {}

RECURSIVE hasInstanceInheritance(_)
hasInstanceInheritance(ch) ==
    LET base == getBaseClass(ch)
    IN  base # <<>> /\ (getInstanceMembers(base[1]) # {} \/ hasInstanceInheritance(base))

\* The walk of the ancestors stopped after the direct base class.
ancestorHasGettersDirect(ch) ==
    LET base == getBaseClass(ch)
    IN  base # <<>> /\ base[1].getters # {}

RECURSIVE ancestorHasGetters(_)
ancestorHasGetters(ch) ==
    LET base == getBaseClass(ch)
    IN  base # <<>> /\ (base[1].getters # {} \/ ancestorHasGetters(base))

RECURSIVE ancestorHasSetters(_)
ancestorHasSetters(ch) ==
    LET base == getBaseClass(ch)
    IN  base # <<>> /\ (base[1].setters # {} \/ ancestorHasSetters(base))

\* ---------------------------------------------------------------- transpileClass

\* The members of a set of names in a fixed (declaration) order.
MemberOrder == <<"s", "m", "x", "__add", "__mode">>
Ordered(S) == SelectSeq(MemberOrder, LAMBDA n : n \in S)

\* Text returned by collaborators.
transpileMethodDeclaration(name) == "<method " \o name \o ">"
transpileAccessorDeclaration(name) == "<accessor " \o name \o ">"
transpileConstructorDeclaration(id) == "<constructor " \o id \o ">"

\* The methods of the table literal: "\n" before the first one, then each method.
MethodLines(names, lead) ==
    IF names = <<>> THEN <<>>
    ELSE <<"\n">> \o [i \in 1..Len(names) |-> lead \o transpileMethodDeclaration(names[i])]

AccessorContent(names, i) ==
    <<"\n">> \o [j \in 1..Len(names) |-> transpileAccessorDeclaration(names[j])] \o <<Ind(i)>>

Trampoline(i, id, metamethod) ==
    Ind(i) \o id \o "." \o metamethod \o " = function(self, ...) return self:" \o metamethod \o "(...); end;\n"

\* LUA_RESERVED_METAMETHODS.forEach from position k on: the text appended so
\* far, or the diagnostic thrown.
RECURSIVE Metamethods(_, _, _, _, _)
Metamethods(ch, id, i, k, acc) ==
    IF k > Len(LUA_RESERVED_METAMETHODS) THEN [err |-> None, text |-> acc]
    ELSE LET metamethod == LUA_RESERVED_METAMETHODS[k]
         IN  IF getClassMethod(ch, metamethod)
             THEN IF metamethod \in LUA_UNDEFINABLE_METAMETHODS
                  THEN [err |-> "UndefinableMetamethod", text |-> <<>>]
                  ELSE Metamethods(ch, id, i, k + 1, Append(acc, Trampoline(i, id, metamethod)))
             ELSE Metamethods(ch, id, i, k + 1, acc)

Factory(i, id) ==
    << Ind(i) \o id \o ".new = function(...)\n",
       Ind(pushIndent(i)) \o "return " \o id \o ".constructor(setmetatable({}, " \o id \o "), ...);\n",
       Ind(popIndent(pushIndent(i))) \o "end;\n" >>

GettersTable(ch, id, i) ==
    LET getters == Ordered(ch[1].getters)
        getterContent == AccessorContent(getters, popIndent(pushIndent(i)))
    IN  IF getters # <<>>
        THEN IF ancestorHasGetters(ch)
             THEN <<Ind(i) \o id \o "._getters = setmetatable({">> \o getterContent
                      \o <<"}, { __index = super._getters });\n">>
             ELSE <<Ind(i) \o id \o "._getters = {">> \o getterContent \o <<"};\n">>
        ELSE <<Ind(i) \o id \o "._getters = super._getters;\n">>

IndexHook(id, i) ==
    << Ind(i) \o "local __index = " \o id \o ".__index;\n",
       Ind(i) \o id \o ".__index = function(self, index)\n",
       Ind(pushIndent(i)) \o "local getter = " \o id \o "._getters[index];\n",
       Ind(pushIndent(i)) \o "if getter then\n",
       Ind(pushIndent(pushIndent(i))) \o "return getter(self);\n",
       Ind(pushIndent(i)) \o "else\n",
       Ind(pushIndent(pushIndent(i))) \o "return __index[index];\n",
       Ind(pushIndent(i)) \o "end;\n",
       Ind(i) \o "end;\n" >>

SettersTable(ch, id, i) ==
    LET setters == Ordered(ch[1].setters)
        setterContent == AccessorContent(setters, popIndent(pushIndent(i)))
    IN  IF setters # <<>>
        THEN IF ancestorHasSetters(ch)
             THEN <<Ind(i) \o id \o "._setters = setmetatable({">> \o setterContent
                      \o <<"}, { __index = super._setters });\n">>
             ELSE <<Ind(i) \o id \o "._setters = {">> \o setterContent \o <<"};\n">>
        ELSE <<Ind(i) \o id \o "._setters = super._setters;\n">>

NewIndexHook(id, i) ==
    << Ind(i) \o id \o ".__newindex = function(self, index, value)\n",
       Ind(pushIndent(i)) \o "local setter = " \o id \o "._setters[index];\n",
       Ind(pushIndent(i)) \o "if setter then\n",
       Ind(pushIndent(pushIndent(i))) \o "setter(self, value);\n",
       Ind(pushIndent(i)) \o "else\n",
       Ind(pushIndent(pushIndent(i))) \o "rawset(self, index, value);\n",
       Ind(pushIndent(i)) \o "end;\n",
       Ind(i) \o "end;\n" >>

SuperAlias(ch, i) ==
    IF hasStaticInheritance(ch) \/ hasInstanceInheritance(ch)
    THEN <<Ind(i) \o "local super = " \o (IF Len(ch) > 1 THEN NameOf(getBaseClass(ch)) ELSE "") \o ";\n">>
    ELSE <<>>

StaticTable(ch, id, prefix, i) ==
    LET methods == Ordered(ch[1].statics)
        hasStaticMembers == methods # <<>>
        inner == pushIndent(i)
        after == popIndent(inner)
    IN  <<Ind(i) \o prefix \o id \o (IF hasStaticInheritance(ch) THEN " = setmetatable({" ELSE " = {")>>
        \o MethodLines(methods, Ind(inner))
        \o <<(IF hasStaticMembers THEN Ind(after) ELSE "")
               \o (IF hasStaticInheritance(ch) THEN "}, {__index = super});\n" ELSE "};\n")>>

InstanceTable(ch, id, i) ==
    LET methods == Ordered(ch[1].methods)
        hasIndexMembers == methods # <<>>
        after == popIndent(pushIndent(i))
    IN  <<Ind(i) \o id \o (IF hasInstanceInheritance(ch) THEN ".__index = setmetatable({" ELSE ".__index = {")>>
        \o MethodLines(methods, "")
        \o <<(IF hasIndexMembers THEN Ind(after) ELSE "")
               \o (IF hasInstanceInheritance(ch) THEN "}, super);\n" ELSE "};\n")>>

\* transpileClass on `node` with state.indent at depth i0: the diagnostic thrown
\* (or None), the text returned, state.indent as the call leaves it, the name
\* given to state.pushExport and the name added to the top of state.hoistStack.
transpileClass(node, i0) ==
    LET ch == node.chain
        id == NameOf(ch)
        i1 == pushIndent(i0)
        open == IF node.isExpression THEN "(function()\n" ELSE Ind(i0) \o "do\n"
        prefix == IF node.isExpression THEN "local " ELSE ""
        iS == popIndent(pushIndent(i1))
        iI == popIndent(pushIndent(iS))
        tables == <<open>> \o SuperAlias(ch, i1) \o StaticTable(ch, id, prefix, i1) \o InstanceTable(ch, id, iS)
        meta == Metamethods(ch, id, iI, 1, <<>>)
        getters == IF ch[1].getters # {} \/ ancestorHasGetters(ch)
                   THEN GettersTable(ch, id, iI) \o IndexHook(id, iI) ELSE <<>>
        setters == IF ch[1].setters # {} \/ ancestorHasSetters(ch)
                   THEN SettersTable(ch, id, iI) \o NewIndexHook(id, iI) ELSE <<>>
        i2 == popIndent(iI)
        close == IF node.isExpression THEN Ind(i2) \o "end)()" ELSE Ind(i2) \o "end;\n"
        pushed == IF node.isExpression THEN None ELSE id
        hoisted == IF node.isExpression THEN None ELSE id
    IN  IF node.heritage \in {"Component", "PureComponent"}
        THEN [err |-> None, text |-> <<"<roact " \o node.heritage \o " " \o id \o ">">>, indent |-> i0,
              pushExport |-> pushed, hoisted |-> None]
        ELSE IF node.heritage = "derived"
        THEN [err |-> "RoactSubClassesNotSupported", text |-> <<>>, indent |-> i0,
              pushExport |-> pushed, hoisted |-> None]
        ELSE IF meta.err # None
        THEN [err |-> meta.err, text |-> <<>>, indent |-> iI, pushExport |-> pushed, hoisted |-> hoisted]
        ELSE [err |-> None,
              text |-> tables \o meta.text
                       \o (IF node.isAbstract THEN <<>> ELSE Factory(iI, id))
                       \o <<transpileConstructorDeclaration(id)>>
                       \o getters \o setters \o <<close>>,
              indent |-> i2, pushExport |-> pushed, hoisted |-> hoisted]

\* ---------------------------------------------------------------- the emitted Lua

\* The meaning of the statements transpileClass emits, read off its text.  A
\* class body runs at depth 1 of a file; its ancestors were lowered as
\* declarations by the same transpileClass.
Has(text, fragment) == \E i \in 1..Len(text) : text[i] = fragment

Declaration(ch) == [chain |-> ch, isExpression |-> FALSE, isAbstract |-> FALSE, heritage |-> "none"]
EmittedText == [ch \in ClassChains |-> transpileClass(Declaration(ch), 0).text]
Emitted(ch) == EmittedText[ch]

Nil == [kind |-> "nil", owner |-> None, name |-> None]
Error(what) == [kind |-> "error", owner |-> None, name |-> what]
Method(owner, name) == [kind |-> "method", owner |-> owner, name |-> name]
Getter(owner, name) == [kind |-> "getter", owner |-> owner, name |-> name]

\* `local super = <Base>;` ran
SuperDefined(ch, text) == Len(ch) > 1 /\ Has(text, Ind(1) \o "local super = " \o NameOf(getBaseClass(ch)) \o ";\n")

\* <id>.__index was built by setmetatable({...}, super)
InstanceTableLinked(ch, text) ==
    /\ Has(text, Ind(1) \o NameOf(ch) \o ".__index = setmetatable({")
    /\ Has(text, "}, super);\n") \/ Has(text, Ind(1) \o "}, super);\n")

\* <id>.__index was replaced by the accessor-dispatch function
HookInstalled(ch, text) == Has(text, Ind(1) \o NameOf(ch) \o ".__index = function(self, index)\n")

\* how <id>._getters was assigned
GettersMode(ch, text) ==
    CASE Has(text, Ind(1) \o NameOf(ch) \o "._getters = setmetatable({") -> "chained"
      [] Has(text, Ind(1) \o NameOf(ch) \o "._getters = {") -> "own"
      [] Has(text, Ind(1) \o NameOf(ch) \o "._getters = super._getters;\n") -> "alias"
      [] OTHER -> "absent"

\* <id>._getters[k]
RECURSIVE GettersIndex(_, _, _)
GettersIndex(ch, text, k) ==
    LET mode == GettersMode(ch, text)
        base == getBaseClass(ch)
        own == k \in ch[1].getters /\ Has(text, transpileAccessorDeclaration(k))
        inherited == IF GettersMode(base, Emitted(base)) = "absent"
                     THEN Nil ELSE GettersIndex(base, Emitted(base), k)
    IN  CASE mode = "own" -> IF own THEN Getter(NameOf(ch), k) ELSE Nil
          [] mode = "chained" ->
                IF ~SuperDefined(ch, text) THEN Error("attempt to index a nil value")
                ELSE IF own THEN Getter(NameOf(ch), k) ELSE inherited
          [] mode = "alias" ->
                IF ~SuperDefined(ch, text) \/ GettersMode(base, Emitted(base)) = "absent"
                THEN Error("attempt to index a nil value") ELSE inherited
          [] OTHER -> Error("attempt to index a nil value")

\* t[k] for t the table first assigned to <id>.__index, and the function that
\* replaces it: function(self, index) ... end of the accessor dispatch.
RECURSIVE IndexInstanceTable(_, _, _)
RECURSIVE CallHook(_, _, _)
IndexInstanceTable(ch, text, k) ==
    LET base == getBaseClass(ch)
    IN  IF k \in ch[1].methods /\ Has(text, transpileMethodDeclaration(k))
        THEN Method(NameOf(ch), k)
        ELSE IF InstanceTableLinked(ch, text) /\ SuperDefined(ch, text)
        THEN IF HookInstalled(base, Emitted(base))
             THEN CallHook(base, Emitted(base), k).value
             ELSE IndexInstanceTable(base, Emitted(base), k)
        ELSE Nil

CallHook(ch, text, k) ==
    LET getter == GettersIndex(ch, text, k)
    IN  IF getter.kind = "error" THEN [branches |-> <<>>, value |-> getter]
        ELSE IF getter.kind # "nil" THEN [branches |-> <<"getter">>, value |-> getter]
        ELSE [branches |-> <<"lookup">>, value |-> IndexInstanceTable(ch, text, k)]

\* instance[k] for a key the instance does not hold itself: the metatable of an
\* instance is <id>, so the read goes to <id>.__index.
ReadInstance(ch, text, k) ==
    IF HookInstalled(ch, text)
    THEN [hooked |-> TRUE] @@ CallHook(ch, text, k)
    ELSE [hooked |-> FALSE, branches |-> <<"lookup">>, value |-> IndexInstanceTable(ch, text, k)]

\* The call `super.m()` of a method of the class, as lowered, run on the
\* emitted tables.
SuperCallNode(ch, m) ==
    [callee |-> "property", recv |-> NamedType(NameOf(getBaseClass(ch))), recvIsSuper |-> TRUE,
     property |-> m, isMethod |-> TRUE, args |-> "", returnsTuple |-> FALSE, parentIsStatement |-> TRUE]

RunSuperCall(ch, m) ==
    LET call == transpileCallExpression(SuperCallNode(ch, m), FALSE).text
        base == getBaseClass(ch)
        selfFirst == call[Len(call) - 1] = "self"
    IN  IF call[1] = NameOf(base) \o ".__index" /\ call[2] = "."
        THEN IF HookInstalled(base, Emitted(base))
             THEN [callee |-> Error("attempt to index a function value"), self |-> selfFirst]
             ELSE [callee |-> IndexInstanceTable(base, Emitted(base), call[3]), self |-> selfFirst]
        ELSE [callee |-> Error("not a path into the ancestor's table"), self |-> selfFirst]

\* ---------------------------------------------------------------- sourceFile.ts

IMP_STR ==
    "local TS = require(\n\tgame:GetService(\"ReplicatedStorage\")\n\t\t:WaitForChild(\"RobloxTS\")\n\t\t:WaitForChild(\"Include\")\n\t\t:WaitForChild(\"RuntimeLib\")\n);\n"

ScriptTypes == {"Module", "Server", "Client"}

\* for (const Descendant of ...ExportAssignment) from position k on, with
\* hasExportEquals as it stands: the final hasExportEquals, or the diagnostic.
RECURSIVE ExportEqualsScan(_, _, _)
ExportEqualsScan(exports, k, hasExportEquals) ==
    IF k > Len(exports) THEN [err |-> None, hasExportEquals |-> hasExportEquals]
    ELSE IF hasExportEquals THEN [err |-> "MultipleExportEquals", hasExportEquals |-> TRUE]
    ELSE ExportEqualsScan(exports, k + 1, exports[k])

\* transpileSourceFile once the body is lowered
WrapSourceFile(body, module, type, exports, uses, i) ==
    LET scan == ExportEqualsScan(exports, 1, FALSE)
        wrapped ==
            IF module
            THEN <<Ind(i) \o (IF scan.hasExportEquals THEN "local _exports;\n" ELSE "local _exports = {};\n")>>
                 \o body \o <<Ind(i) \o "return _exports;\n">>
            ELSE IF type = "Module" THEN body \o <<Ind(i) \o "return nil;\n">>
            ELSE body
    IN  IF module /\ type # "Module" THEN [err |-> "ExportInNonModuleScript", text |-> <<>>]
        ELSE IF module /\ scan.err # None THEN [err |-> scan.err, text |-> <<>>]
        ELSE [err |-> None, text |-> IF uses THEN <<Ind(i) \o IMP_STR>> \o wrapped ELSE wrapped]

\* ---------------------------------------------------------------- the compilation of one file

NoNode ==
    [op |-> "none", node |-> None, flag |-> FALSE, err |-> None, text |-> <<>>, entry |-> 0, tsl |-> FALSE,
     pushExport |-> None, hoisted |-> None]

Init ==
    /\ pc = "ready"
    /\ indent = 0
    /\ usesTSLibrary = FALSE
    /\ isModule = FALSE
    /\ exportAssignments = <<>>
    /\ last = NoNode
    /\ out = [err |-> None, text |-> <<>>, type |-> None]
    /\ trace = <<>>

\* The dispatcher lowers a call expression.
TranspileCallExpression(node, doNotWrapTupleReturn) ==
    /\ pc = "ready"
    /\ \E r \in {transpileCallExpression(node, doNotWrapTupleReturn)} :
           /\ pc' = IF r.err = None THEN "lowered" ELSE "failed"
           /\ usesTSLibrary' = (usesTSLibrary \/ r.tsl)
           /\ last' = [op |-> "call", node |-> node, flag |-> doNotWrapTupleReturn, err |-> r.err,
                       text |-> r.text, entry |-> indent, tsl |-> usesTSLibrary,
                       pushExport |-> None, hoisted |-> None]
    /\ UNCHANGED <<indent, isModule, exportAssignments, out, trace>>

\* The dispatcher lowers a typeof expression.
TranspileTypeOfExpression ==
    /\ pc = "ready"
    /\ pc' = "lowered"
    /\ usesTSLibrary' = TRUE
    /\ last' = [op |-> "typeof", node |-> None, flag |-> FALSE, err |-> None,
                text |-> <<"TS.typeof(", AccessPath, ")">>, entry |-> indent, tsl |-> usesTSLibrary,
                pushExport |-> None, hoisted |-> None]
    /\ UNCHANGED <<indent, isModule, exportAssignments, out, trace>>

\* The dispatcher lowers a class declaration or expression.
TranspileClass(node) ==
    /\ pc = "ready"
    /\ \E r \in {transpileClass(node, indent)} :
           /\ pc' = IF r.err = None THEN "lowered" ELSE "failed"
           /\ indent' = r.indent
           /\ last' = [op |-> "class", node |-> node, flag |-> FALSE, err |-> r.err,
                       text |-> r.text, entry |-> indent, tsl |-> usesTSLibrary,
                       pushExport |-> r.pushExport, hoisted |-> r.hoisted]
    /\ UNCHANGED <<usesTSLibrary, isModule, exportAssignments, out, trace>>

\* The dispatcher lowers an `export = e` (isExportEquals) or `export default e`.
TranspileExportAssignment(isExportEquals) ==
    /\ pc = "ready"
    /\ Len(exportAssignments) < MaxExports
    /\ pc' = "lowered"
    /\ isModule' = TRUE
    /\ exportAssignments' = Append(exportAssignments, isExportEquals)
    /\ last' = [op |-> "export", node |-> isExportEquals, flag |-> FALSE, err |-> None,
                text |-> <<>>, entry |-> indent, tsl |-> usesTSLibrary,
                pushExport |-> None, hoisted |-> None]
    /\ UNCHANGED <<indent, usesTSLibrary, out, trace>>

\* The dispatcher takes the text and goes on to the next node.
Continue ==
    /\ pc = "lowered"
    /\ pc' = "ready"
    /\ last' = NoNode
    /\ trace' = <<>>
    /\ UNCHANGED <<indent, usesTSLibrary, isModule, exportAssignments, out>>

\* The body is lowered: transpileSourceFile wraps it.
TranspileSourceFile(type) ==
    /\ pc = "ready"
    /\ \E r \in {WrapSourceFile(<<"<body>">>, isModule, type, exportAssignments, usesTSLibrary, indent)} :
           /\ pc' = IF r.err = None THEN "done" ELSE "failed"
           /\ out' = [err |-> r.err, text |-> r.text, type |-> type]
    /\ UNCHANGED <<indent, usesTSLibrary, isModule, exportAssignments, last, trace>>

\* The emitted program reads key k of an instance made by <id>.new of the
\* class lowered last.
ReadKeys == {"x", "m", "q"}

ReadKey(k) ==
    /\ pc = "lowered"
    /\ last.op = "class"
    /\ last.node.heritage = "none"
    /\ ~last.node.isAbstract
    /\ trace' = <<[op |-> "read", key |-> k] @@ ReadInstance(last.node.chain, last.text, k)>>
    /\ UNCHANGED <<pc, indent, usesTSLibrary, isModule, exportAssignments, last, out>>

\* The emitted program runs `super.m()` in a method of the class lowered last,
\* m an instance method of an ancestor.
SuperCall(m) ==
    /\ pc = "lowered"
    /\ last.op = "class"
    /\ last.node.heritage = "none"
    /\ Len(last.node.chain) > 1
    /\ \E j \in 2..Len(last.node.chain) : m \in last.node.chain[j].methods
    /\ trace' = <<[op |-> "super", key |-> m] @@ RunSuperCall(last.node.chain, m)>>
    /\ UNCHANGED <<pc, indent, usesTSLibrary, isModule, exportAssignments, last, out>>

MethodNames == {"m", "__add"}

LowerCall ==
    /\ pc = "ready"
    /\ \E node \in CallNodes, doNotWrapTupleReturn \in BOOLEAN : TranspileCallExpression(node, doNotWrapTupleReturn)
LowerClass ==
    /\ pc = "ready"
    /\ \E node \in ClassNodes : TranspileClass(node)
LowerExport == \E isExportEquals \in BOOLEAN : TranspileExportAssignment(isExportEquals)
Wrap == \E type \in ScriptTypes : TranspileSourceFile(type)
Read == \E k \in ReadKeys : ReadKey(k)
Super == \E m \in MethodNames : SuperCall(m)

Next ==
    \/ LowerCall
    \/ TranspileTypeOfExpression
    \/ LowerClass
    \/ LowerExport
    \/ Continue
    \/ Wrap
    \/ Read
    \/ Super

Spec == Init /\ [][Next]_vars

\* Class lowering and the program it emits.
NextClass ==
    \/ LowerClass
    \/ Continue
    \/ Read
    \/ Super

SpecClass == Init /\ [][NextClass]_vars

\* Calls, exports and the file wrapper.
NextFile ==
    \/ LowerCall
    \/ TranspileTypeOfExpression
    \/ LowerExport
    \/ Continue
    \/ Wrap

SpecFile == Init /\ [][NextFile]_vars

\* ================================================================ claims

LastChain == last.node.chain
LastClassLowered == last.op = "class" /\ last.node.heritage = "none"

\* A class of the chain, or one of its ancestors, declares a method of this name.
Defines(ch, m) == \E j \in 1..Len(ch) : m \in ch[j].methods \cup ch[j].statics

\* ---------------------------------------------------------------- C1
\* C1: whenever transpileClass has run, on a normal return as on a thrown
\* diagnostic, state.indent is what it was when the call began.
C1_IndentRestoredOnEveryExit == last.op = "class" => indent = last.entry

\* ---------------------------------------------------------------- C2
Wrapped(text) ==
    /\ Len(text) >= 2
    /\ text[1] = "{ " /\ text[Len(text)] = " }"
    /\ Count(text, "{ ") = 1 /\ Count(text, " }") = 1

\* C2 as stated: a call returning a tuple and lowered with
\* doNotWrapTupleReturn = false is returned wrapped in `{ ... }` exactly once
\* whichever strategy lowers it, and unwrapped with doNotWrapTupleReturn = true.
C2_EveryTupleCallWrappedOnce ==
    (last.op = "call" /\ last.err = None /\ last.node.returnsTuple) =>
        IF last.flag THEN Count(last.text, "{ ") = 0 ELSE Wrapped(last.text)

\* The calls the resolver lowers by a macro: array and string receivers and
\* the named-type special forms.
LoweredByMacro(node) ==
    /\ node.callee = "property"
    /\ \/ node.recv.isArray
       \/ node.recv.isString
       \/ node.recv.sym = "Promise" /\ node.property = "then"
       \/ node.recv.sym = "SymbolConstructor" /\ node.property = "for"
       \/ node.recv.sym \in MapNames \cup SetNames \cup {"ObjectConstructor"}
       \/ node.recv.sym \in RBX_MATH_CLASSES /\ node.property \in {"add", "sub", "mul", "div"}

\* C2, amended: the wrapping is that of the non-member call other than
\* super(...) and of the default member call: with a tuple return type and
\* doNotWrapTupleReturn = false their text is the text lowered with
\* doNotWrapTupleReturn = true inside one `{ ... }`; super(...) and every macro
\* are returned unwrapped; nothing else is ever wrapped.
C2_TupleCallWrappedOnceOutsideMacros ==
    (last.op = "call" /\ last.err = None) =>
        LET node == last.node
            wraps == /\ node.returnsTuple /\ ~last.flag
                     /\ node.callee # "super" /\ ~LoweredByMacro(node)
        IN  IF wraps
            THEN /\ Wrapped(last.text)
                 /\ last.text = <<"{ ">> \o transpileCallExpression(node, TRUE).text \o <<" }">>
            ELSE Count(last.text, "{ ") = 0 /\ Count(last.text, " }") = 0

C2_Witness ==
    /\ last.op = "call" /\ last.err = None /\ ~last.flag
    /\ last.node.returnsTuple /\ last.node.callee = "property" /\ last.node.recv.sym = UserClass
    /\ last.text = <<"{ ", AccessPath, ":", "get", "(", "y", ")", " }">>

\* ---------------------------------------------------------------- C3
ExpectedTrampoline(ch, m) ==
    "\t" \o NameOf(ch) \o "." \o m \o " = function(self, ...) return self:" \o m \o "(...); end;\n"

ReservedNames == {LUA_RESERVED_METAMETHODS[k] : k \in 1..Len(LUA_RESERVED_METAMETHODS)}

Nearest(J) == CHOOSE j \in J : \A i \in J : j <= i
NameAt(ch, j) == ClassNames[Len(ch) - j + 1]

\* C4: of a class that declares or inherits a get accessor, a read of key k on
\* an instance runs the emitted hook, which either calls the accessor of k of
\* the nearest class declaring one, or else looks k up in the instance table
\* captured before the hook replaced it (finding the method of the nearest
\* class that has one, or nil): one of the two, never both, never neither.
C4_HookCallsAccessorOrReadsTable ==
    (trace # <<>> /\ trace[1].op = "read") =>
        LET ch == LastChain
            k == trace[1].key
            G == {j \in 1..Len(ch) : k \in ch[j].getters}
            M == {j \in 1..Len(ch) : k \in ch[j].methods}
        IN  (\E j \in 1..Len(ch) : ch[j].getters # {}) =>
                /\ trace[1].hooked
                /\ IF G # {}
                   THEN /\ trace[1].branches = <<"getter">>
                        /\ trace[1].value = Getter(NameAt(ch, Nearest(G)), k)
                   ELSE /\ trace[1].branches = <<"lookup">>
                        /\ trace[1].value = IF M # {} THEN Method(NameAt(ch, Nearest(M)), k) ELSE Nil

\* a read answered by the accessor of a distant ancestor, through a base class
\* that declares no accessor
C4_Witness ==
    /\ trace # <<>> /\ trace[1].op = "read" /\ trace[1].key = "x"
    /\ Len(LastChain) = 3
    /\ LastChain[1].getters = {} /\ LastChain[2].getters = {} /\ LastChain[3].getters = {"x"}
    /\ trace[1].branches = <<"getter">>
    /\ trace[1].value = Getter("A", "x")

\* ---------------------------------------------------------------- C5
\* C5: of a module file of the Module script kind, transpileSourceFile throws
\* MultipleExportEquals exactly when the file holds more than one `export =`.
C5_ThrowsIffSeveralExportEquals ==
    (out.type = "Module" /\ isModule) =>
        ((out.err = "MultipleExportEquals") <=> (Count(exportAssignments, TRUE) > 1))

\* ---------------------------------------------------------------- C6
RuntimeLibraryHeads == {"TS.array_", "TS.string_", "TS.map_", "TS.set_", "TS.Object_"}

ExportsDeclarations == {"local _exports;\n", "local _exports = {};\n"}

RuntimeLibraryReceiver(node) ==
    /\ node.callee = "property"
    /\ \/ node.recv.isArray
       \/ node.recv.isString /\ node.property \notin STRING_MACRO_METHODS
       \/ node.recv.sym \in MapNames \cup SetNames \cup {"ObjectConstructor"}

C6_FlagSetAndImportFirst ==
    /\ (last.op = "call" /\ last.err = None) =>
          /\ RuntimeLibraryReceiver(last.node) <=> last.text[1] \in RuntimeLibraryHeads
          /\ last.text[1] \in RuntimeLibraryHeads => usesTSLibrary
    /\ pc = "done" =>
          IF usesTSLibrary
          THEN /\ out.text[1] = IMP_STR
               /\ Count(out.text, IMP_STR) = 1
               /\ isModule => out.text[2] \in ExportsDeclarations
          ELSE Count(out.text, IMP_STR) = 0

\* C6: a call lowered to a runtime-library call leaves state.usesTSLibrary
\* true; no step resets the flag; and the file text starts with the runtime
\* import, before the exports declaration, exactly when the flag is set.
C6_RuntimeLibraryFlag == [](C6_FlagSetAndImportFirst) /\ [][usesTSLibrary => usesTSLibrary']_vars

C6_Witness ==
    /\ pc = "done" /\ usesTSLibrary /\ isModule
    /\ out.text[1] = IMP_STR /\ out.text[2] = "local _exports = {};\n"

\* ---------------------------------------------------------------- C7
ExpectedOperator(property) ==
    CASE property = "add" -> " + ("
      [] property = "sub" -> " - ("
      [] property = "mul" -> " * ("
      [] property = "div" -> " / ("

\* C7: x.op(y), op one of add, sub, mul, div, on a receiver whose type symbol
\* is a math value type: as an expression statement it throws
\* NoMacroMathExpressionStatement and returns no text; otherwise it returns
\* `(x <operator> (y))` and leaves the runtime-library flag as it was.
C7_MathMacro ==
    ( /\ last.op = "call" /\ last.node.callee = "property"
      /\ last.node.recv.sym \in RBX_MATH_CLASSES
      /\ last.node.property \in {"add", "sub", "mul", "div"} ) =>
        IF last.node.parentIsStatement
        THEN last.err = "NoMacroMathExpressionStatement" /\ last.text = <<>> /\ pc = "failed"
        ELSE /\ last.err = None
             /\ last.text = <<"(", AccessPath, ExpectedOperator(last.node.property), last.node.args, "))">>
             /\ usesTSLibrary = last.tsl

C7_Witness ==
    /\ last.op = "call" /\ last.node.recv.sym = "Vector3" /\ last.node.property = "sub"
    /\ last.text = <<"(", "x", " - (", "y", "))">>
    /\ ~usesTSLibrary

\* ---------------------------------------------------------------- C8
ReceiverAndArgs(args) == IF args = "" THEN AccessPath ELSE AccessPath \o ", " \o args
SelfAndArgs(args) == IF args = "" THEN "self" ELSE "self, " \o args
Unwrapped(text) == IF text # <<>> /\ text[1] = "{ " THEN SubSeq(text, 2, Len(text) - 1) ELSE text

\* C8: the strategy is chosen by the priority order, first match winning:
\* non-member call, array receiver, string receiver, named-type special form,
\* default member call; each returns its own form of text, and a named type
\* whose member has no special form is lowered by the default member call.
C8_StrategyByPriority ==
    last.op = "call" =>
        LET n == last.node
            m == n.property
            sym == n.recv.sym
            text == last.text
        IN  CASE n.callee = "super" ->
                    text = <<sym, ".constructor(", SelfAndArgs(n.args), ")">>
              [] n.callee = "other" ->
                    Unwrapped(text) = <<"f", "(", n.args, ")">>
              [] n.callee = "property" /\ n.recv.isArray ->
                    text = <<"TS.array_", m, "(", ReceiverAndArgs(n.args), ")">>
              [] n.callee = "property" /\ ~n.recv.isArray /\ n.recv.isString ->
                    IF m \in STRING_MACRO_METHODS
                    THEN text = <<"string.", m, "(", ReceiverAndArgs(n.args), ")">>
                    ELSE text = <<"TS.string_", m, "(", ReceiverAndArgs(n.args), ")">>
              [] n.callee = "property" /\ ~n.recv.isArray /\ ~n.recv.isString ->
                    CASE sym = "Promise" /\ m = "then" -> text = <<AccessPath, ":andThen(", n.args, ")">>
                      [] sym = "SymbolConstructor" /\ m = "for" -> text = <<AccessPath, ".getFor(", n.args, ")">>
                      [] sym \in MapNames -> text = <<"TS.map_", m, "(", ReceiverAndArgs(n.args), ")">>
                      [] sym \in SetNames -> text = <<"TS.set_", m, "(", ReceiverAndArgs(n.args), ")">>
                      [] sym = "ObjectConstructor" -> text = <<"TS.Object_", m, "(", n.args, ")">>
                      [] sym \in RBX_MATH_CLASSES /\ m \in {"add", "sub", "mul", "div"} ->
                            \/ last.err = "NoMacroMathExpressionStatement"
                            \/ last.err = None /\ Len(text) = 5 /\ text[1] = "(" /\ text[5] = "))"
                      [] OTHER ->
                            /\ last.err = None
                            /\ Unwrapped(text) =
                                 IF n.isMethod /\ n.recvIsSuper
                                 THEN <<sym \o ".__index", ".", m, "(", SelfAndArgs(n.args), ")">>
                                 ELSE <<AccessPath, IF n.isMethod THEN ":" ELSE ".", m, "(", n.args, ")">>

\* a member of a Promise other than `then`, lowered by the default member call
C8_Witness ==
    /\ last.op = "call" /\ last.node.callee = "property"
    /\ last.node.recv.sym = "Promise" /\ last.node.property = "get"
    /\ last.text = <<"x", ":", "get", "(", "y", ")">>

\* ---------------------------------------------------------------- C9
ReadsSuper(text) == \E i \in 1..Len(text), k \in 1..Len(ClassNames) : text[i] = "\tlocal super = " \o ClassNames[k] \o ";\n"

\* C9: the static table is built by setmetatable(..., {__index = super})
\* exactly when an ancestor declares a static member, the instance table by
\* setmetatable(..., super) exactly when an ancestor declares an instance
\* member, and `local super = ...` is there exactly when one of the two is;
\* with no member in any ancestor the body has neither alias nor wiring.
C9_WiringOnlyForInheritedMembers ==
    (LastClassLowered /\ last.err = None) =>
        LET ch == LastChain
            text == last.text
            id == "\t" \o (IF last.node.isExpression THEN "local " ELSE "") \o NameOf(ch)
            index == "\t" \o NameOf(ch) \o ".__index"
            inheritsStatic == \E j \in 2..Len(ch) : ch[j].statics # {}
            inheritsInstance == \E j \in 2..Len(ch) : ch[j].methods \cup ch[j].getters \cup ch[j].setters # {}
        IN  /\ ReadsSuper(text) <=> (inheritsStatic \/ inheritsInstance)
            /\ Has(text, id \o " = setmetatable({") <=> inheritsStatic
            /\ Has(text, id \o " = {") <=> ~inheritsStatic
            /\ (Has(text, "}, {__index = super});\n") \/ Has(text, "\t}, {__index = super});\n")) <=> inheritsStatic
            /\ Has(text, index \o " = setmetatable({") <=> inheritsInstance
            /\ Has(text, index \o " = {") <=> ~inheritsInstance
            /\ (Has(text, "}, super);\n") \/ Has(text, "\t}, super);\n")) <=> inheritsInstance

\* a class whose two ancestors declare nothing, lowered without alias or wiring
C9_Witness ==
    /\ LastClassLowered /\ last.err = None /\ Len(LastChain) = 3
    /\ LastChain[2] = Shape({}, {}, {}, {}) /\ LastChain[3] = Shape({}, {}, {}, {})
    /\ LastChain[1].methods = {"m"}
    /\ ~ReadsSuper(last.text)
    /\ Has(last.text, "\tC = {") /\ Has(last.text, "\tC.__index = {")

\* ---------------------------------------------------------------- C10
\* C10: `<Base>.__index.m(self, ...)`, the lowering of super.m(...), calls the
\* implementation of m of the nearest ancestor that has one, with self first,
\* whatever the ancestor declares or inherits.
C10_SuperCallReachesAncestorMethod ==
    (trace # <<>> /\ trace[1].op = "super") =>
        LET ch == LastChain
            m == trace[1].key
            M == {j \in 2..Len(ch) : m \in ch[j].methods}
        IN  /\ trace[1].self
            /\ trace[1].callee = Method(NameAt(ch, Nearest(M)), m)


\* ---------------------------------------------------------------- C11
\* the word w occurs in the fragment s; the fragment s begins with p
Mentions(s, w) == \E k \in 1..(Len(s) - Len(w) + 1) : SubSeq(s, k, k + Len(w) - 1) = w
StartsWith(s, p) == Len(s) >= Len(p) /\ SubSeq(s, 1, Len(p)) = p

\* the body of the class assigns <id>._getters (resp. <id>._setters)
Assigns(ch, text, table) == \E i \in 1..Len(text) : StartsWith(text[i], Ind(1) \o NameOf(ch) \o "." \o table \o " = ")

\* C11: in the body emitted for a class of a chain, every fragment that reads
\* `super` comes after the fragment `local super = <Base>;` of the same body,
\* and a body that reads super._getters (resp. super._setters) has a direct
\* base class whose own body assigns <Base>._getters (resp. <Base>._setters),
\* also when only a more distant ancestor declares the accessor.
C11_SuperAndAccessorTablesDefined ==
    (LastClassLowered /\ last.err = None) =>
        LET ch == LastChain
            text == last.text
            base == getBaseClass(ch)
            alias == Ind(pushIndent(last.entry)) \o "local super = "
                        \o (IF base # <<>> THEN NameOf(base) ELSE "") \o ";\n"
        IN  \A j \in 1..Len(text) :
                /\ (Mentions(text[j], "super") /\ text[j] # alias) =>
                        (base # <<>> /\ \E i \in 1..(j - 1) : text[i] = alias)
                /\ Mentions(text[j], "super._getters") =>
                        (base # <<>> /\ Assigns(base, Emitted(base), "_getters"))
                /\ Mentions(text[j], "super._setters") =>
                        (base # <<>> /\ Assigns(base, Emitted(base), "_setters"))

\* a class and its base class declare no accessor, the base of the base
\* declares a getter and a setter: both alias the accessor tables of `super`
C11_Witness ==
    /\ LastClassLowered /\ last.err = None /\ Len(LastChain) = 3
    /\ LastChain[1].getters = {} /\ LastChain[1].setters = {}
    /\ LastChain[2].getters = {} /\ LastChain[2].setters = {}
    /\ LastChain[2].methods = {} /\ LastChain[2].statics = {}
    /\ LastChain[3].getters = {"x"} /\ LastChain[3].setters = {"x"}
    /\ Has(last.text, Ind(pushIndent(last.entry)) \o "C._getters = super._getters;\n")
    /\ Has(last.text, Ind(pushIndent(last.entry)) \o "C._setters = super._setters;\n")
    /\ Has(Emitted(getBaseClass(LastChain)), Ind(1) \o "B._getters = super._getters;\n")
    /\ Has(Emitted(getBaseClass(LastChain)), Ind(1) \o "B._setters = super._setters;\n")

====
